---- MODULE Spec2Model ----
(***************************************************************************)
(* Model of the Rust state machine: the system, balances and               *)
(* proof_of_existence pallets and the Runtime that composes them and       *)
(* executes blocks of extrinsics.                                          *)
(*                                                                         *)
(* The integer types of main.rs (Balance = u128, BlockNumber = u32,        *)
(* Nonce = u32) keep their behaviour at the upper end of their range, but  *)
(* their widths are scaled down to BalanceBits, BlockNumberBits and        *)
(* NonceBits so that the upper end is reachable.                           *)
(***************************************************************************)
EXTENDS Integers, Sequences, FiniteSets, TLC

\* ------------------------------------------------------------------ bounds
BalanceBits == 7
BlockNumberBits == 2
NonceBits == 3
MaxExt == 3
MaxCalls == 4
MaxOps == 3
MaxDirect == 3

BalanceMax == 2^BalanceBits - 1
BlockNumberMax == 2^BlockNumberBits - 1
NonceMax == 2^NonceBits - 1

\* ------------------------------------------------------------------ inputs
Accounts == {"alice", "bob", "charlie"}
Contents == {"hello_world", "other"}
None == "None"
\* amounts of the calls inside blocks, and of the seeding before them
Amounts == {BalanceMax}
SeedAmounts == {BalanceMax}
\* amounts of the handler calls made directly on the balances pallet
PalletAmounts == {0, 20, 51, BalanceMax}
PalletSeedAmounts == {100, BalanceMax}

\* --------------------------------------------------------------- BTreeMap
EmptyMap == [k \in {} |-> 0]

MapInsert(m, k, v) == [x \in (DOMAIN m) \cup {k} |-> IF x = k THEN v ELSE m[x]]

MapRemove(m, k) == [x \in (DOMAIN m) \ {k} |-> m[x]]

\* ---------------------------------------------------------- DispatchResult
Ok == "Ok"
ErrBlockNumber == "block number does not match what is expected"
ErrFunds == "Not enough funds."
ErrOverflow == "Overflow"
ErrClaimed == "this content is already claimed"
ErrNoClaim == "claim does not exist"
ErrNotOwner == "not the owner of the claim"

\* ------------------------------------------------------------------ state
VARIABLES
  block_number,     \* system::Pallet.block_number
  nonce,            \* system::Pallet.nonce      (BTreeMap AccountId -> Nonce)
  balances,         \* balances::Pallet.balances (BTreeMap AccountId -> Balance)
  claims,           \* proof_of_existence::Pallet.claims (BTreeMap Content -> AccountId)
  overflow_checks,  \* build profile: TRUE = overflow checks on (dev), FALSE = off (release)
  pc,               \* "idle" | "loop" | "panicked": position of execute_block
  header,           \* block.header.block_number of the block in execution / last executed
  len,              \* block.extrinsics.len() of that block
  index,            \* number of extrinsics of that block already taken by the loop
  accepted,         \* that block passed the block number check
  result,           \* what the last execute_block call returned
  last,             \* the last handler call: caller, call, result
  pre,              \* pallet state right before the last handler call
  submitted,        \* per account: extrinsics with that caller in accepted blocks
  calls,            \* number of execute_block calls made
  direct,           \* number of handler calls made directly on a pallet
  holder,           \* per content: caller of the last successful create_claim that no
                    \* successful revoke_claim has followed, else None
  script,           \* number of steps of main made so far, Off once main is left
  freed,            \* per content: caller of the last successful revoke_claim, else None
  touched,          \* accounts set by set_balance or party to a successful transfer
  start             \* runtime state at the start of the last execute_block call

vars == <<block_number, nonce, balances, claims, overflow_checks, pc, header, len,
          index, accepted, result, last, pre, submitted, calls, direct, holder, script,
          freed, touched, start>>

\* ------------------------------------------------------------ system pallet
nonce_of(n, who) == IF who \in DOMAIN n THEN n[who] ELSE 0

\* `+` on an unsigned integer: with overflow checks the addition panics at the
\* maximum, without them it wraps.
AddOne(v, max, checks) ==
  IF v < max THEN [panic |-> FALSE, value |-> v + 1]
  ELSE IF checks THEN [panic |-> TRUE, value |-> v]
  ELSE [panic |-> FALSE, value |-> (v + 1) % (max + 1)]

inc_block_number(bn, checks) == AddOne(bn, BlockNumberMax, checks)

inc_nonce(n, who, checks) ==
  LET r == AddOne(nonce_of(n, who), NonceMax, checks)
  IN  [panic |-> r.panic,
       nonce |-> IF r.panic THEN n ELSE MapInsert(n, who, r.value)]

\* ---------------------------------------------------------- balances pallet
balance(b, who) == IF who \in DOMAIN b THEN b[who] ELSE 0

\* Option<Balance>: is_some is FALSE for Option::None.
checked_sub(a, b) ==
  IF b > a THEN [is_some |-> FALSE, value |-> 0] ELSE [is_some |-> TRUE, value |-> a - b]

checked_add(a, b) ==
  IF a + b > BalanceMax THEN [is_some |-> FALSE, value |-> 0]
  ELSE [is_some |-> TRUE, value |-> a + b]

set_balance(b, who, amount) == MapInsert(b, who, amount)

\* transfer with the addition checked before the subtraction
transfer_add_first(b, caller, to, amount) ==
  LET caller_balance == balance(b, caller)
      to_balance == balance(b, to)
      new_caller_balance == checked_sub(caller_balance, amount)
      new_to_balance == checked_add(to_balance, amount)
  IN  IF ~new_to_balance.is_some THEN [balances |-> b, res |-> ErrOverflow]
      ELSE IF ~new_caller_balance.is_some THEN [balances |-> b, res |-> ErrFunds]
      ELSE [balances |-> MapInsert(MapInsert(b, caller, new_caller_balance.value),
                                   to, new_to_balance.value),
            res |-> Ok]

\* transfer that writes the caller's new balance before it checks the addition
transfer_debit_first(b, caller, to, amount) ==
  LET caller_balance == balance(b, caller)
      to_balance == balance(b, to)
      new_caller_balance == checked_sub(caller_balance, amount)
      new_to_balance == checked_add(to_balance, amount)
  IN  IF ~new_caller_balance.is_some THEN [balances |-> b, res |-> ErrFunds]
      ELSE IF ~new_to_balance.is_some
           THEN [balances |-> MapInsert(b, caller, new_caller_balance.value),
                 res |-> ErrOverflow]
      ELSE [balances |-> MapInsert(MapInsert(b, caller, new_caller_balance.value),
                                   to, new_to_balance.value),
            res |-> Ok]

\* transfer that credits the recipient although the caller lacks the funds
transfer_credit_on_failure(b, caller, to, amount) ==
  LET caller_balance == balance(b, caller)
      to_balance == balance(b, to)
      new_caller_balance == checked_sub(caller_balance, amount)
      new_to_balance == checked_add(to_balance, amount)
  IN  IF ~new_to_balance.is_some THEN [balances |-> b, res |-> ErrOverflow]
      ELSE IF ~new_caller_balance.is_some
      THEN [balances |-> MapInsert(b, to, new_to_balance.value), res |-> ErrFunds]
      ELSE [balances |-> MapInsert(MapInsert(b, caller, new_caller_balance.value),
                                   to, new_to_balance.value),
            res |-> Ok]

\* transfer that credits the recipient without debiting the caller
transfer_no_debit(b, caller, to, amount) ==
  LET caller_balance == balance(b, caller)
      to_balance == balance(b, to)
      new_caller_balance == checked_sub(caller_balance, amount)
      new_to_balance == checked_add(to_balance, amount)
  IN  IF ~new_caller_balance.is_some THEN [balances |-> b, res |-> ErrFunds]
      ELSE IF ~new_to_balance.is_some THEN [balances |-> b, res |-> ErrOverflow]
      ELSE [balances |-> MapInsert(b, to, new_to_balance.value), res |-> Ok]

transfer(b, caller, to, amount) ==
  LET caller_balance == balance(b, caller)
      to_balance == balance(b, to)
      new_caller_balance == checked_sub(caller_balance, amount)
      new_to_balance == checked_add(to_balance, amount)
  IN  IF ~new_caller_balance.is_some THEN [balances |-> b, res |-> ErrFunds]
      ELSE IF ~new_to_balance.is_some THEN [balances |-> b, res |-> ErrOverflow]
      ELSE [balances |-> MapInsert(MapInsert(b, caller, new_caller_balance.value),
                                   to, new_to_balance.value),
            res |-> Ok]

\* ------------------------------------------------ proof_of_existence pallet
get_claim(c, claim) == IF claim \in DOMAIN c THEN c[claim] ELSE None

\* create_claim without the contains_key check
create_claim_overwrite(c, caller, claim) ==
  [claims |-> MapInsert(c, claim, caller), res |-> Ok]

\* create_claim that reports the error of a claimed content after the insert
create_claim_insert_first(c, caller, claim) ==
  IF claim \in DOMAIN c THEN [claims |-> MapInsert(c, claim, caller), res |-> ErrClaimed]
  ELSE [claims |-> MapInsert(c, claim, caller), res |-> Ok]

create_claim(c, caller, claim) ==
  IF claim \in DOMAIN c THEN [claims |-> c, res |-> ErrClaimed]
  ELSE [claims |-> MapInsert(c, claim, caller), res |-> Ok]

\* revoke_claim without the owner check
revoke_claim_any_caller(c, caller, claim) ==
  LET owner == get_claim(c, claim)
  IN  IF owner = None THEN [claims |-> c, res |-> ErrNoClaim]
      ELSE [claims |-> MapRemove(c, claim), res |-> Ok]

\* revoke_claim that compares the looked up owner with the caller without
\* handling a missing claim first
revoke_claim_no_lookup_error(c, caller, claim) ==
  LET owner == get_claim(c, claim)
  IN  IF owner # caller THEN [claims |-> c, res |-> ErrNotOwner]
      ELSE [claims |-> MapRemove(c, claim), res |-> Ok]

\* revoke_claim that returns Ok without removing the entry
revoke_claim_keep_entry(c, caller, claim) ==
  LET owner == get_claim(c, claim)
  IN  IF owner = None THEN [claims |-> c, res |-> ErrNoClaim]
      ELSE IF owner # caller THEN [claims |-> c, res |-> ErrNotOwner]
      ELSE [claims |-> c, res |-> Ok]

revoke_claim(c, caller, claim) ==
  LET owner == get_claim(c, claim)
  IN  IF owner = None THEN [claims |-> c, res |-> ErrNoClaim]
      ELSE IF owner # caller THEN [claims |-> c, res |-> ErrNotOwner]
      ELSE [claims |-> MapRemove(c, claim), res |-> Ok]

\* ------------------------------------------------------------------- calls
Transfer(to, amount) ==
  [pallet |-> "Balances", call |-> "Transfer", to |-> to, amount |-> amount, claim |-> None]

CreateClaim(claim) ==
  [pallet |-> "ProofOfExistence", call |-> "CreateClaim", to |-> None, amount |-> 0,
   claim |-> claim]

RevokeClaim(claim) ==
  [pallet |-> "ProofOfExistence", call |-> "RevokeClaim", to |-> None, amount |-> 0,
   claim |-> claim]

BalancesCalls == {Transfer(to, amount) : to \in Accounts, amount \in Amounts}

ProofOfExistenceCalls ==
  {CreateClaim(c) : c \in Contents} \cup {RevokeClaim(c) : c \in Contents}

RuntimeCall == BalancesCalls \cup ProofOfExistenceCalls

NoCall == [pallet |-> None, call |-> None, to |-> None, amount |-> 0, claim |-> None]

\* ---------------------------------------------------------------- dispatch
\* a dispatch that acts for the account named in the call instead of the caller
balances_dispatch_as_recipient(b, caller, call) ==
  transfer(b, call.to, caller, call.amount)

balances_dispatch(b, caller, call) == transfer(b, caller, call.to, call.amount)

proof_of_existence_dispatch(c, caller, call) ==
  IF call.call = "CreateClaim" THEN create_claim(c, caller, call.claim)
  ELSE revoke_claim(c, caller, call.claim)

\* a dispatch whose Balances arm also empties the claims
dispatch_resetting_claims(b, c, caller, runtime_call) ==
  IF runtime_call.pallet = "Balances"
  THEN LET r == balances_dispatch(b, caller, runtime_call)
       IN  [balances |-> r.balances, claims |-> EmptyMap, res |-> r.res]
  ELSE LET r == proof_of_existence_dispatch(c, caller, runtime_call)
       IN  [balances |-> b, claims |-> r.claims, res |-> r.res]

dispatch(b, c, caller, runtime_call) ==
  IF runtime_call.pallet = "Balances"
  THEN LET r == balances_dispatch(b, caller, runtime_call)
       IN  [balances |-> r.balances, claims |-> c, res |-> r.res]
  ELSE LET r == proof_of_existence_dispatch(c, caller, runtime_call)
       IN  [balances |-> b, claims |-> r.claims, res |-> r.res]

\* ----------------------------------------------------------------- history
NoLast == [caller |-> None, call |-> NoCall, res |-> None]

Snapshot == [nonce |-> nonce, balances |-> balances, claims |-> claims, holder |-> holder]

\* holder after the call `call` of `caller` returned `res`
Held(h, caller, call, res) ==
  IF res = Ok /\ call.call = "CreateClaim" THEN [h EXCEPT ![call.claim] = caller]
  ELSE IF res = Ok /\ call.call = "RevokeClaim" THEN [h EXCEPT ![call.claim] = None]
  ELSE h

\* freed after the call `call` of `caller` returned `res`
Freed(f, caller, call, res) ==
  IF res = Ok /\ call.call = "RevokeClaim" THEN [f EXCEPT ![call.claim] = caller] ELSE f

\* touched after the call `call` of `caller` returned `res`
Touched(t, caller, call, res) ==
  IF res = Ok /\ call.call = "Transfer" THEN t \cup {caller, call.to} ELSE t

BlockStart ==
  [block_number |-> block_number, nonce |-> nonce, balances |-> balances,
   claims |-> claims]

Ops == submitted["alice"] + submitted["bob"] + submitted["charlie"]

\* ------------------------------------------------------------------- main
\* The steps of main: the seeding, then block_1, block_2 and block_3 with
\* their extrinsics.
SeedStep(who, amount) ==
  [op |-> "set_balance", who |-> who, amount |-> amount, declared |-> 0, n |-> 0,
   call |-> NoCall]

BlockStep(declared, n) ==
  [op |-> "execute_block", who |-> None, amount |-> 0, declared |-> declared, n |-> n,
   call |-> NoCall]

ExtrinsicStep(caller, call) ==
  [op |-> "extrinsic", who |-> caller, amount |-> 0, declared |-> 0, n |-> 0,
   call |-> call]

Main ==
  << SeedStep("alice", 100),
     BlockStep(1, 2),
     ExtrinsicStep("alice", Transfer("bob", 30)),
     ExtrinsicStep("alice", Transfer("charlie", 20)),
     BlockStep(2, 2),
     ExtrinsicStep("alice", CreateClaim("hello_world")),
     ExtrinsicStep("bob", CreateClaim("hello_world")),
     BlockStep(3, 2),
     ExtrinsicStep("alice", RevokeClaim("hello_world")),
     ExtrinsicStep("bob", CreateClaim("hello_world")) >>

MainExtrinsics == {Main[i] : i \in {3, 4, 6, 7, 9, 10}}

Off == 0 - 1

Follow(s, step) ==
  IF s # Off /\ s < Len(Main) /\ Main[s + 1] = step THEN s + 1 ELSE Off

\* -------------------------------------------------------------------- Init
\* Runtime::new(): every pallet is empty and the block number is 0.
Init ==
  /\ block_number = 0
  /\ nonce = EmptyMap
  /\ balances = EmptyMap
  /\ claims = EmptyMap
  /\ overflow_checks \in BOOLEAN
  /\ pc = "idle"
  /\ header = 0
  /\ len = 0
  /\ index = 0
  /\ accepted = FALSE
  /\ result = None
  /\ holder = [c \in Contents |-> None]
  /\ last = NoLast
  /\ pre = Snapshot
  /\ submitted = [a \in Accounts |-> 0]
  /\ calls = 0
  /\ direct = 0
  /\ script = 0
  /\ freed = [c \in Contents |-> None]
  /\ touched = {}
  /\ start = BlockStart

\* ----------------------------------------------------------------- actions
\* balances.set_balance(who, amount)
SetBalance(who, amount) ==
  /\ pc = "idle"
  /\ balances' = set_balance(balances, who, amount)
  /\ script' = Follow(script, SeedStep(who, amount))
  /\ touched' = touched \cup {who}
  /\ UNCHANGED <<block_number, nonce, claims, overflow_checks, pc, header, len, index,
                 accepted, result, last, pre, submitted, calls, direct, holder, freed,
                 start>>

\* Runtime::execute_block up to the loop: the block number is advanced, then
\* compared with the header of the block; `n` is the length of block.extrinsics.
ExecuteBlock(declared, n) ==
  /\ pc = "idle"
  /\ calls < MaxCalls
  /\ calls' = calls + 1
  /\ script' = Follow(script, BlockStep(declared, n))
  /\ start' = BlockStart
  /\ header' = declared
  /\ len' = n
  /\ index' = 0
  /\ LET r == inc_block_number(block_number, overflow_checks)
     IN  IF r.panic
         THEN /\ pc' = "panicked"
              /\ result' = "panic"
              /\ accepted' = FALSE
              /\ UNCHANGED block_number
         ELSE /\ block_number' = r.value
              /\ IF declared # r.value
                 THEN /\ result' = ErrBlockNumber
                      /\ accepted' = FALSE
                      /\ pc' = "idle"
                 ELSE /\ accepted' = TRUE
                      /\ IF n = 0
                         THEN pc' = "idle" /\ result' = Ok
                         ELSE pc' = "loop" /\ result' = None
  /\ UNCHANGED <<nonce, balances, claims, overflow_checks, last, pre, submitted, direct,
                 holder, freed, touched>>

\* An iteration that dispatches the call against the state the block started
\* from instead of the state left by the extrinsics before it.
Extrinsic_on_block_start(caller, call) ==
  /\ pc = "loop"
  /\ index < len
  /\ index' = index + 1
  /\ submitted' = [submitted EXCEPT ![caller] = @ + 1]
  /\ script' = Follow(script, ExtrinsicStep(caller, call))
  /\ LET n == inc_nonce(nonce, caller, overflow_checks)
     IN  IF n.panic
         THEN /\ pc' = "panicked"
              /\ result' = "panic"
              /\ UNCHANGED <<nonce, balances, claims, holder, last, pre, freed, touched>>
         ELSE LET d == dispatch(start.balances, start.claims, caller, call)
              IN  /\ pre' = Snapshot
                  /\ nonce' = n.nonce
                  /\ balances' = d.balances
                  /\ claims' = d.claims
                  /\ last' = [caller |-> caller, call |-> call, res |-> d.res]
                  /\ holder' = Held(holder, caller, call, d.res)
                  /\ freed' = Freed(freed, caller, call, d.res)
                  /\ touched' = Touched(touched, caller, call, d.res)
                  /\ IF index + 1 = len
                     THEN pc' = "idle" /\ result' = Ok
                     ELSE pc' = "loop" /\ result' = None
  /\ UNCHANGED <<block_number, overflow_checks, header, len, accepted, calls, direct,
                 start>>

\* One iteration of the loop of execute_block over block.extrinsics: the next
\* extrinsic (caller, call) of the list is taken, the caller's nonce is
\* incremented and the call is dispatched; an error of the call is printed and
\* dropped.  After the last extrinsic execute_block returns Ok.
Extrinsic(caller, call) ==
  /\ pc = "loop"
  /\ index < len
  /\ index' = index + 1
  /\ submitted' = [submitted EXCEPT ![caller] = @ + 1]
  /\ script' = Follow(script, ExtrinsicStep(caller, call))
  /\ LET n == inc_nonce(nonce, caller, overflow_checks)
     IN  IF n.panic
         THEN /\ pc' = "panicked"
              /\ result' = "panic"
              /\ UNCHANGED <<nonce, balances, claims, holder, last, pre, freed, touched>>
         ELSE LET d == dispatch(balances, claims, caller, call)
              IN  /\ pre' = Snapshot
                  /\ nonce' = n.nonce
                  /\ balances' = d.balances
                  /\ claims' = d.claims
                  /\ last' = [caller |-> caller, call |-> call, res |-> d.res]
                  /\ holder' = Held(holder, caller, call, d.res)
                  /\ freed' = Freed(freed, caller, call, d.res)
                  /\ touched' = Touched(touched, caller, call, d.res)
                  /\ IF index + 1 = len
                     THEN pc' = "idle" /\ result' = Ok
                     ELSE pc' = "loop" /\ result' = None
  /\ UNCHANGED <<block_number, overflow_checks, header, len, accepted, calls, direct,
                 start>>

\* balances::Pallet::transfer called on the pallet itself, as tests::transfer_balance does
TransferCall(caller, to, amount) ==
  /\ pc = "idle"
  /\ direct < MaxDirect
  /\ direct' = direct + 1
  /\ script' = Off
  /\ pre' = Snapshot
  /\ LET r == transfer(balances, caller, to, amount)
     IN  /\ balances' = r.balances
         /\ last' = [caller |-> caller, call |-> Transfer(to, amount), res |-> r.res]
         /\ touched' = Touched(touched, caller, Transfer(to, amount), r.res)
  /\ UNCHANGED <<block_number, nonce, claims, overflow_checks, pc, header, len, index,
                 accepted, result, submitted, calls, holder, freed, start>>

\* proof_of_existence::Pallet::create_claim called on the pallet itself, as
\* test::basic_proof_of_existence does
CreateClaimCall(caller, claim) ==
  /\ pc = "idle"
  /\ script' = Off
  /\ pre' = Snapshot
  /\ LET r == create_claim(claims, caller, claim)
     IN  /\ claims' = r.claims
         /\ last' = [caller |-> caller, call |-> CreateClaim(claim), res |-> r.res]
         /\ holder' = Held(holder, caller, CreateClaim(claim), r.res)
  /\ UNCHANGED <<block_number, nonce, balances, overflow_checks, pc, header, len, index,
                 accepted, result, submitted, calls, direct, freed, touched, start>>

\* proof_of_existence::Pallet::revoke_claim called on the pallet itself
RevokeClaimCall(caller, claim) ==
  /\ pc = "idle"
  /\ script' = Off
  /\ pre' = Snapshot
  /\ LET r == revoke_claim(claims, caller, claim)
     IN  /\ claims' = r.claims
         /\ last' = [caller |-> caller, call |-> RevokeClaim(claim), res |-> r.res]
         /\ holder' = Held(holder, caller, RevokeClaim(claim), r.res)
         /\ freed' = Freed(freed, caller, RevokeClaim(claim), r.res)
  /\ UNCHANGED <<block_number, nonce, balances, overflow_checks, pc, header, len, index,
                 accepted, result, submitted, calls, direct, touched, start>>

\* ---------------------------------------------------------- specifications
\* The runtime: balances are seeded, then blocks are executed.
Next ==
  \/ \E who \in Accounts, amount \in SeedAmounts : calls = 0 /\ SetBalance(who, amount)
  \/ \E declared \in 0..BlockNumberMax, n \in 0..MaxExt :
       n + Ops <= MaxOps /\ ExecuteBlock(declared, n)
  \/ \E caller \in Accounts, call \in RuntimeCall : Extrinsic(caller, call)

Spec == Init /\ [][Next]_vars

\* The runtime fed with what main feeds it: the seeding of main, then blocks
\* made of the extrinsics main builds, in any order and under any header.
NextMain ==
  \/ calls = 0 /\ SetBalance("alice", 100)
  \/ \E declared \in 0..BlockNumberMax, n \in 0..MaxExt : ExecuteBlock(declared, n)
  \/ \E e \in MainExtrinsics : Extrinsic(e.who, e.call)

SpecMain == Init /\ [][NextMain]_vars

\* The balances pallet on its own: balances are seeded, then transfers are made.
NextBalances ==
  \/ \E who \in Accounts, amount \in PalletSeedAmounts : direct = 0 /\ SetBalance(who, amount)
  \/ \E caller \in Accounts, to \in Accounts, amount \in PalletAmounts :
       TransferCall(caller, to, amount)

SpecBalances == Init /\ [][NextBalances]_vars

\* The proof_of_existence pallet on its own.
NextProofOfExistence ==
  \/ \E caller \in Accounts, claim \in Contents : CreateClaimCall(caller, claim)
  \/ \E caller \in Accounts, claim \in Contents : RevokeClaimCall(caller, claim)

SpecProofOfExistence == Init /\ [][NextProofOfExistence]_vars

\* ------------------------------------------------------------------ claims
Total(b) == balance(b, "alice") + balance(b, "bob") + balance(b, "charlie")

LastIs(name) == last.call.call = name

\* C1: a block whose declared number differs from the block number before the
\* call + 1 is rejected with the block number error and changes no nonce, no
\* balance and no claim.
C1_MismatchRejected ==
  [][\A declared \in 0..BlockNumberMax, n \in 0..MaxExt :
       (ExecuteBlock(declared, n) /\ declared # block_number + 1)
         => (/\ result' = ErrBlockNumber
             /\ pc' = "idle"
             /\ UNCHANGED <<nonce, balances, claims>>)]_vars

\* C2: a block whose declared number is the block number before the call + 1
\* is executed to its end whatever its extrinsics return: execute_block
\* returns Ok, the block number is the declared one and every extrinsic of
\* the list has been dispatched.
C2_AcceptedBlockSucceeds ==
  (accepted /\ pc # "loop")
    => (result = Ok /\ block_number = header /\ index = len)

\* C3: after any sequence of execute_block calls the nonce of every account is
\* the number of extrinsics with that caller in the accepted blocks, failed
\* ones included.
C3_NonceCountsExtrinsics ==
  pc = "idle" => \A a \in Accounts : nonce_of(nonce, a) = submitted[a]

\* C4: a successful transfer(a, b, n) leaves balance(a) + balance(b) and the
\* total of all balances as they were.
C4_TransferConserves ==
  (LastIs("Transfer") /\ last.res = Ok)
    => (/\ balance(balances, last.caller) + balance(balances, last.call.to)
             = balance(pre.balances, last.caller) + balance(pre.balances, last.call.to)
        /\ Total(balances) = Total(pre.balances))

\* C5: transfer(a, a, n) with n <= balance(a) returns Ok and leaves balance(a)
\* as it was.
C5_SelfTransferNeutral ==
  (/\ LastIs("Transfer")
   /\ last.call.to = last.caller
   /\ last.call.amount <= balance(pre.balances, last.caller))
    => (/\ last.res = Ok
        /\ balance(balances, last.caller) = balance(pre.balances, last.caller))

\* C6: transfer(a, b, n) with n > balance(a) fails with "Not enough funds.",
\* also when a has no stored balance and when balance(b) + n overflows, and
\* changes no balance.
C6_InsufficientFunds ==
  (LastIs("Transfer") /\ last.call.amount > balance(pre.balances, last.caller))
    => (/\ last.res = ErrFunds
        /\ balances = pre.balances
        /\ \A a \in Accounts : balance(balances, a) = balance(pre.balances, a))

C6_Witness ==
  /\ LastIs("Transfer")
  /\ last.caller \notin DOMAIN pre.balances
  /\ last.call.amount > balance(pre.balances, last.caller)
  /\ balance(pre.balances, last.call.to) + last.call.amount > BalanceMax
  /\ last.res = ErrFunds

\* C7: transfer(a, b, n) with n <= balance(a) and balance(b) + n above the
\* maximum of Balance fails with "Overflow" and writes nothing: a is not
\* debited and b is not credited.
C7_OverflowNoPartialWrite ==
  (/\ LastIs("Transfer")
   /\ last.call.amount <= balance(pre.balances, last.caller)
   /\ balance(pre.balances, last.call.to) + last.call.amount > BalanceMax)
    => (/\ last.res = ErrOverflow
        /\ balances = pre.balances
        /\ balance(balances, last.caller) = balance(pre.balances, last.caller)
        /\ balance(balances, last.call.to) = balance(pre.balances, last.call.to))

C7_Witness ==
  /\ LastIs("Transfer")
  /\ last.call.to # last.caller
  /\ last.call.amount > 0
  /\ last.call.amount <= balance(pre.balances, last.caller)
  /\ balance(pre.balances, last.call.to) + last.call.amount > BalanceMax
  /\ last.res = ErrOverflow

\* C8: from a successful create_claim(a, c) until a successful revoke_claim of
\* c, every create_claim(b, c) fails with "this content is already claimed"
\* and a stays the owner of c; a content has at most one owner.
C8_ClaimExclusivity ==
  /\ \A c \in Contents :
       /\ get_claim(claims, c) = holder[c]
       /\ get_claim(claims, c) \in Accounts \cup {None}
  /\ (LastIs("CreateClaim") /\ pre.holder[last.call.claim] # None)
       => (/\ last.res = ErrClaimed
           /\ holder[last.call.claim] = pre.holder[last.call.claim]
           /\ get_claim(claims, last.call.claim) = pre.holder[last.call.claim])

C8_Witness ==
  /\ LastIs("CreateClaim")
  /\ pre.holder[last.call.claim] \in Accounts \ {last.caller}
  /\ last.res = ErrClaimed
  /\ get_claim(claims, last.call.claim) = pre.holder[last.call.claim]

\* C9: revoke_claim(b, c) of a content owned by a # b fails with "not the owner
\* of the claim" and a stays the owner of c.
C9_RevokeAuthorization ==
  (/\ LastIs("RevokeClaim")
   /\ get_claim(pre.claims, last.call.claim) \notin {None, last.caller})
    => (/\ last.res = ErrNotOwner
        /\ get_claim(claims, last.call.claim) = get_claim(pre.claims, last.call.claim))

C9_Witness ==
  /\ LastIs("RevokeClaim")
  /\ get_claim(pre.claims, last.call.claim) \in Accounts \ {last.caller}
  /\ last.res = ErrNotOwner

\* C10: revoke_claim(b, c) of a content without owner fails with "claim does
\* not exist" and leaves the claims map as it was.
C10_RevokeMissingClaim ==
  (LastIs("RevokeClaim") /\ get_claim(pre.claims, last.call.claim) = None)
    => (/\ last.res = ErrNoClaim
        /\ claims = pre.claims
        /\ \A c \in Contents : get_claim(claims, c) = get_claim(pre.claims, c))

C10_Witness ==
  /\ LastIs("RevokeClaim")
  /\ get_claim(pre.claims, last.call.claim) = None
  /\ \E c \in Contents : get_claim(pre.claims, c) # None
  /\ last.res = ErrNoClaim

\* C11: revoke_claim(a, c) of a content owned by a returns Ok and leaves c
\* without owner; the create_claim(b, c) that follows it, by a or by anyone
\* else, returns Ok and makes b the owner of c.
C11_RevokeFreesContent ==
  /\ (LastIs("RevokeClaim") /\ get_claim(pre.claims, last.call.claim) = last.caller)
       => (/\ last.res = Ok
           /\ get_claim(claims, last.call.claim) = None)
  /\ (/\ LastIs("CreateClaim")
      /\ freed[last.call.claim] # None
      /\ pre.holder[last.call.claim] = None)
       => (/\ last.res = Ok
           /\ get_claim(claims, last.call.claim) = last.caller)

C11_Witness ==
  /\ LastIs("CreateClaim")
  /\ freed[last.call.claim] \in Accounts
  /\ pre.holder[last.call.claim] = None
  /\ last.res = Ok
  /\ get_claim(claims, last.call.claim) = last.caller

\* C12: main's scenario.  After the seeding and block 1 execute_block has
\* returned Ok, the block number is 1, alice's nonce is 2 and the balances are
\* alice 50, bob 30, charlie 20; in block 2 alice's create_claim succeeds and
\* bob's fails as already claimed, alice owns the content and both nonces have
\* grown by 1; in block 3 alice's revoke_claim and bob's create_claim succeed
\* and bob owns the content; every execute_block call returns Ok.
C12_MainScenario ==
  /\ script \in {2, 5, 8} => (accepted /\ pc = "loop")
  /\ script = 4
       => (/\ pc = "idle" /\ result = Ok
           /\ block_number = 1
           /\ nonce_of(nonce, "alice") = 2
           /\ balance(balances, "alice") = 50
           /\ balance(balances, "bob") = 30
           /\ balance(balances, "charlie") = 20)
  /\ script = 6 => (last.res = Ok /\ get_claim(claims, "hello_world") = "alice")
  /\ script = 7
       => (/\ pc = "idle" /\ result = Ok
           /\ block_number = 2
           /\ last.res = ErrClaimed
           /\ get_claim(claims, "hello_world") = "alice"
           /\ nonce_of(nonce, "alice") = nonce_of(start.nonce, "alice") + 1
           /\ nonce_of(nonce, "bob") = nonce_of(start.nonce, "bob") + 1
           /\ nonce_of(nonce, "alice") = 3 /\ nonce_of(nonce, "bob") = 1)
  /\ script = 9 => (last.res = Ok /\ get_claim(claims, "hello_world") = None)
  /\ script = 10
       => (/\ pc = "idle" /\ result = Ok
           /\ block_number = 3
           /\ last.res = Ok
           /\ get_claim(claims, "hello_world") = "bob"
           /\ balance(balances, "alice") = 50
           /\ balance(balances, "bob") = 30
           /\ balance(balances, "charlie") = 20)

C12_Witness ==
  /\ script = Len(Main)
  /\ calls = 3
  /\ result = Ok
  /\ get_claim(claims, "hello_world") = "bob"

\* C13: a fresh runtime has block number 0, every nonce 0, every balance 0 and
\* no claim.  An account that was never the target of set_balance and never a
\* party to a successful transfer has balance 0; a failed transfer that names
\* it as recipient leaves it at 0.
C13_DefaultZero ==
  /\ (calls = 0 /\ direct = 0 /\ touched = {})
       => (/\ block_number = 0
           /\ \A a \in Accounts : nonce_of(nonce, a) = 0 /\ balance(balances, a) = 0
           /\ \A c \in Contents : get_claim(claims, c) = None)
  /\ \A a \in Accounts \ touched : balance(balances, a) = 0
  /\ (LastIs("Transfer") /\ last.res # Ok /\ last.call.to \notin touched)
       => (/\ balance(pre.balances, last.call.to) = 0
           /\ balance(balances, last.call.to) = 0)

C13_Witness ==
  /\ LastIs("Transfer")
  /\ last.res = ErrFunds
  /\ last.call.amount > 0
  /\ last.call.to \notin touched
  /\ last.caller \in touched
  /\ balance(balances, last.call.to) = 0

\* C14: the owner of a content changes in two ways only: from no owner to the
\* caller of a create_claim of that content that returned Ok, and from an owner
\* to no owner by a revoke_claim of that content by that owner that returned
\* Ok.  It never passes from one account to another in one step.
C14_OwnershipTransitions ==
  [][\A c \in Contents :
       get_claim(claims', c) # get_claim(claims, c)
         => \/ /\ get_claim(claims, c) = None
               /\ last' = [caller |-> get_claim(claims', c), call |-> CreateClaim(c),
                           res |-> Ok]
            \/ /\ get_claim(claims, c) \in Accounts
               /\ get_claim(claims', c) = None
               /\ last' = [caller |-> get_claim(claims, c), call |-> RevokeClaim(c),
                           res |-> Ok]]_vars

C14_Witness ==
  \E c \in Contents :
    /\ freed[c] \in Accounts
    /\ get_claim(claims, c) \in Accounts
    /\ get_claim(claims, c) # freed[c]
    /\ last.res = ErrClaimed
    /\ last.call.claim = c

\* What the handler named by `call` returns and leaves when `caller` calls it
\* on the balances b and the claims c.
Handled(b, c, caller, call) ==
  IF call.call = "Transfer"
  THEN LET r == transfer(b, caller, call.to, call.amount)
       IN  [balances |-> r.balances, claims |-> c, res |-> r.res]
  ELSE IF call.call = "CreateClaim"
  THEN LET r == create_claim(c, caller, call.claim)
       IN  [balances |-> b, claims |-> r.claims, res |-> r.res]
  ELSE LET r == revoke_claim(c, caller, call.claim)
       IN  [balances |-> b, claims |-> r.claims, res |-> r.res]

\* C15: in an accepted block the extrinsics are taken one by one in list
\* order, and each is dispatched against the balances and claims left by the
\* extrinsics before it: its result and its effect are those of its handler on
\* that state (so funds received earlier in the block can be spent, a content
\* revoked earlier in the block can be claimed).  The nonce of its caller is
\* incremented first: a dispatched extrinsic finds the nonce already moved, by
\* one below the maximum, and when the increment panics nothing is dispatched.
C15_InBlockOrder ==
  [][(pc = "loop" /\ index' = index + 1)
       => /\ accepted /\ index < len
          /\ \E caller \in Accounts :
               /\ submitted' = [submitted EXCEPT ![caller] = @ + 1]
               /\ IF pc' = "panicked"
                  THEN /\ overflow_checks
                       /\ nonce_of(nonce, caller) = NonceMax
                       /\ UNCHANGED <<nonce, balances, claims, last>>
                  ELSE /\ last'.caller = caller
                       /\ nonce_of(nonce', caller) # nonce_of(nonce, caller)
                       /\ nonce_of(nonce, caller) < NonceMax
                            => nonce_of(nonce', caller) = nonce_of(nonce, caller) + 1
                       /\ LET h == Handled(balances, claims, caller, last'.call)
                          IN  /\ last'.res = h.res
                              /\ balances' = h.balances
                              /\ claims' = h.claims]_vars

C15_Witness ==
  /\ pc \in {"idle", "loop"}
  /\ index >= 2
  /\ LastIs("Transfer")
  /\ last.res = Ok
  /\ last.call.amount > 0
  /\ balance(start.balances, last.caller) < last.call.amount
  /\ balance(pre.balances, last.caller) >= last.call.amount

\* C16: Runtime::dispatch forwards.  In every state, for every caller and
\* every call, it returns what the handler of the call returns for that caller
\* and leaves what the handler leaves: transfer for Balances(Transfer),
\* create_claim for ProofOfExistence(CreateClaim), revoke_claim for
\* ProofOfExistence(RevokeClaim).  The call an extrinsic carried has acted for
\* the caller of the extrinsic, and its error is the handler's error.
C16_DispatchForwards ==
  /\ \A caller \in Accounts, call \in RuntimeCall :
       dispatch(balances, claims, caller, call) = Handled(balances, claims, caller, call)
  /\ last # NoLast
       => Handled(pre.balances, pre.claims, last.caller, last.call)
            = [balances |-> balances, claims |-> claims, res |-> last.res]

C16_Witness ==
  /\ accepted
  /\ index >= 2
  /\ LastIs("RevokeClaim")
  /\ last.res = ErrNotOwner
  /\ get_claim(claims, last.call.claim) \in Accounts \ {last.caller}
  /\ \E a \in Accounts : balance(balances, a) > 0

\* C17: the dispatch of a Balances call, whatever it returns, leaves the
\* claims, the nonces and the block number as they were, and that of a
\* ProofOfExistence call leaves the balances, the nonces and the block number;
\* a transfer changes the balance of its caller and of its recipient only, a
\* create_claim or revoke_claim the claim of its content only.  (The nonces
\* after the step are those inc_nonce left before the dispatch.)
C17_ModuleIsolation ==
  [][(pc = "loop" /\ index' = index + 1 /\ pc' # "panicked")
       => LET caller == last'.caller
              call == last'.call
          IN  /\ block_number' = block_number
              /\ nonce' = inc_nonce(nonce, caller, overflow_checks).nonce
              /\ \A a \in Accounts \ {caller} : nonce_of(nonce', a) = nonce_of(nonce, a)
              /\ call.pallet = "Balances"
                   => /\ claims' = claims
                      /\ \A a \in Accounts \ {caller, call.to} :
                           /\ balance(balances', a) = balance(balances, a)
                           /\ a \in DOMAIN balances' <=> a \in DOMAIN balances
              /\ call.pallet = "ProofOfExistence"
                   => /\ balances' = balances
                      /\ \A c \in Contents \ {call.claim} :
                           get_claim(claims', c) = get_claim(claims, c)]_vars

C17_Witness ==
  /\ accepted
  /\ index >= 2
  /\ LastIs("Transfer")
  /\ last.res = Ok
  /\ balances # pre.balances
  /\ claims # EmptyMap
  /\ claims = pre.claims
  /\ \E a \in Accounts \ {last.caller, last.call.to} : balance(balances, a) > 0

\* C18: every call of execute_block, rejected or accepted, leaves the block
\* number one higher than it found it, so the block number is the number of
\* execute_block calls made; a block rejected for its number leaves the
\* nonces, the balances and the claims as the call found them.
C18_EveryCallAdvances ==
  /\ block_number = calls
  /\ calls > 0 => block_number = start.block_number + 1
  /\ (calls > 0 /\ ~accepted)
       => (/\ result = ErrBlockNumber
           /\ pc = "idle"
           /\ nonce = start.nonce
           /\ balances = start.balances
           /\ claims = start.claims)

\* C19: inc_block_number and inc_nonce never fail and yield one more than the
\* value they found, whatever that value: no step panics, an execute_block call
\* moves the block number up by one, an extrinsic moves the nonce of its caller
\* up by one, and no step lowers the block number or a nonce.
C19_CountersNeverFail ==
  [][/\ pc' # "panicked"
     /\ block_number' >= block_number
     /\ \A a \in Accounts : nonce_of(nonce', a) >= nonce_of(nonce, a)
     /\ calls' # calls => block_number' = block_number + 1
     /\ \A a \in Accounts :
          submitted'[a] # submitted[a] => nonce_of(nonce', a) = nonce_of(nonce, a) + 1]_vars

====
